---------------------------- MODULE Spec2Model ----------------------------
(***************************************************************************)
(* Model of the SHARK-Turbine stable-diffusion scheduler exporter          *)
(* (sd_inference/schedulers.py) and runner (sd_inference/                  *)
(* schedulers_runner.py).                                                  *)
(*                                                                         *)
(* Two state machines are modelled:                                        *)
(*   Spec     the sampling loop: the Scheduler module of the exporter and  *)
(*            the Scheduler module nested in run_torch_scheduler, each     *)
(*            with construction (__init__) and forward.                    *)
(*   SpecCLI  the two command lines: the exporter's __main__ with          *)
(*            export_scheduler, followed by the runner's __main__.         *)
(*                                                                         *)
(* Tensors are sequences of integers indexed along the batch axis (one     *)
(* integer per batch row); shapes are tuples of integers.  The denoising   *)
(* network and the scheduler algorithms are external collaborators         *)
(* (diffusers); they are modelled as fixed deterministic functions of      *)
(* exactly the arguments the source passes to them, plus, for the          *)
(* scheduler, the state the scheduler object owns.                         *)
(***************************************************************************)
EXTENDS Integers, Sequences, FiniteSets, TLC

VARIABLES
    \* ---- sampling loop (Spec) ----
    scheduler_id,           \* key selecting the scheduler algorithm
    num_inference_steps,    \* configured step count N
    sample,                 \* latent input of forward, one integer per batch row
    encoder_hidden_states,  \* conditioning input of forward, 2B rows
    mod,                    \* the two Scheduler modules, see NewModule
    \* ---- command lines (SpecCLI) ----
    args,                   \* parsed command line shared by exporter and runner
    ex,                     \* exporter process, see ExporterStart
    rn                      \* runner process, see RunnerStart

vars == <<scheduler_id, num_inference_steps, sample, encoder_hidden_states,
          mod, args, ex, rn>>

loopVars == <<scheduler_id, num_inference_steps, sample,
              encoder_hidden_states, mod>>
cliVars == <<args, ex, rn>>

---------------------------------------------------------------------------
(* Bounds of the model *)

\* largest configured step count explored
MaxSteps == 2
\* largest batch size explored
MaxBatch == 2
\* forward passes explored per Scheduler module
MaxPasses == 2
\* constructions (__init__) explored per Scheduler module
MaxInits == 2
\* largest comparison error explored, in thousandths
MaxErrMilli == 10

---------------------------------------------------------------------------
(* Tensor helpers *)

\* elementwise latents * s
TensorScale(x, s) == [i \in 1..Len(x) |-> x[i] * s]

\* torch.cat([latents] * 2): the batch duplicated along axis 0
CatTwice(x) == x \o x

\* tensor.chunk(2): two pieces along axis 0, the first of ceil(n / 2) rows
Chunk2(x) ==
    LET n == Len(x)
        k == (n + 1) \div 2
    IN  <<SubSeq(x, 1, k), SubSeq(x, k + 1, n)>>

\* self.guidance_scale = 7.5, kept exact as the fraction 15 / 2
GuidanceScaleNum == 15
GuidanceScaleDen == 2

\* a guidance combination that extrapolates from the conditional half
GuidedNoiseSwapped(g_num, g_den, noise_pred_uncond, noise_pred_text) ==
    [i \in 1..Len(noise_pred_uncond) |->
        noise_pred_text[i]
          + (g_num * (noise_pred_uncond[i] - noise_pred_text[i])) \div g_den]

\* noise_pred_uncond + guidance_scale * (noise_pred_text - noise_pred_uncond)
GuidedNoise(g_num, g_den, noise_pred_uncond, noise_pred_text) ==
    [i \in 1..Len(noise_pred_uncond) |->
        noise_pred_uncond[i]
          + (g_num * (noise_pred_text[i] - noise_pred_uncond[i])) \div g_den]

---------------------------------------------------------------------------
(* External collaborators of the loop *)

\* keys of the dictionary utils.get_schedulers returns
SchedulerIds == {"PNDM", "DDIM", "EulerDiscrete"}

\* scheduler.timesteps after set_timesteps(n): a descending sequence.  Its
\* length is the algorithm's: n for DDIM and EulerDiscrete; PNDM (PLMS,
\* skip_prk_steps) repeats its second timestep, giving n + 1 for n >= 2.
SetTimesteps(id, n) ==
    LET plain == [i \in 1..n |-> n + 1 - i]
    IN  IF id = "PNDM" /\ n >= 2
        THEN <<plain[1], plain[2]>> \o SubSeq(plain, 2, n)
        ELSE plain

\* scheduler-owned state after set_timesteps: step counter and the history
\* of earlier noise predictions (multi-step algorithms)
FreshSchedulerState == [counter |-> 0, ets |-> <<>>]

\* scheduler.init_noise_sigma
InitNoiseSigma(id) == IF id = "EulerDiscrete" THEN 3 ELSE 1

\* scheduler.scale_model_input(x, timestep = t)
ScaleModelInput(id, x, t) ==
    IF id = "EulerDiscrete" THEN [i \in 1..Len(x) |-> x[i] + t] ELSE x

\* unet.forward(latent_model_input, t, encoder_hidden_states)[0]: one
\* prediction row per input row, from that row and its conditioning row
UNetForward(x, t, ehs) ==
    [i \in 1..Len(x) |-> 2 * (x[i] + t + 3 * ehs[i])]

\* scheduler.step(noise_pred, t, latents)[0] and the scheduler state it
\* leaves.  PNDM is multi-step: it adds the previous noise prediction it
\* kept, and keeps the new one.
SchedulerStep(id, st, noise_pred, t, lat) ==
    LET hist == IF id = "PNDM" /\ st.ets # <<>>
                THEN st.ets
                ELSE [i \in 1..Len(lat) |-> 0]
    IN  [prev_sample |-> [i \in 1..Len(lat) |->
                             lat[i] - noise_pred[i] - hist[i] + t],
         state |-> [counter |-> st.counter + 1,
                    ets |-> IF id = "PNDM" THEN noise_pred ELSE st.ets]]


---------------------------------------------------------------------------
(* The sampling loop *)

\* the Scheduler class of schedulers.py and the one nested in
\* run_torch_scheduler of schedulers_runner.py
Modules == {"exporter", "runner"}

\* one entry of a module's call log: the operation, its tensor argument x,
\* its timestep (or scalar) t, its second tensor argument c, its result r
Call(op, x, t, c, r) == [op |-> op, x |-> x, t |-> t, c |-> c, r |-> r]

\* a module before __init__ ran
NewModule ==
    [pc |-> "absent",      \* absent, ready, loop, done
     timesteps |-> <<>>,   \* self.scheduler.timesteps
     sched |-> FreshSchedulerState,
     latents |-> <<>>,     \* the loop-local latents
     pos |-> 0,            \* timesteps consumed by the running pass
     calls |-> <<>>,       \* call log of the running or last pass
     outs |-> <<>>,        \* results returned so far, with the pass number
     passes |-> 0,         \* forward passes started since __init__
     inits |-> 0]          \* times __init__ ran

\* a construction whose set_timesteps leaves the scheduler's state as it is
SchedulerInitKeepsState(m, id, n) ==
    [m EXCEPT !.pc = "ready",
              !.timesteps = SetTimesteps(id, n),
              !.passes = 0,
              !.inits = @ + 1]

\* Scheduler.__init__: keeps the scheduler and calls set_timesteps on it,
\* which also resets the state the scheduler owns
SchedulerInit(m, id, n) ==
    [m EXCEPT !.pc = "ready",
              !.timesteps = SetTimesteps(id, n),
              !.sched = FreshSchedulerState,
              !.passes = 0,
              !.inits = @ + 1]

\* schedulers.py, forward: latents = latents * self.scheduler.init_noise_sigma
ForwardEnter(id, lat) == TensorScale(lat, InitNoiseSigma(id))

\* schedulers_runner.py, forward: the same statement of the eager reference
TorchForwardEnter(id, lat) == TensorScale(lat, InitNoiseSigma(id))

\* a loop body that multiplies the latents by init_noise_sigma in every
\* iteration
ForwardBodySigmaEachStep(id, st, lat, t, ehs) ==
    LET rescaled == TensorScale(lat, InitNoiseSigma(id))
        cat == CatTwice(rescaled)
        latent_model_input == ScaleModelInput(id, cat, t)
        unet_out == UNetForward(latent_model_input, t, ehs)
        halves == Chunk2(unet_out)
        noise_pred == GuidedNoise(GuidanceScaleNum, GuidanceScaleDen,
                                  halves[1], halves[2])
        stepped == SchedulerStep(id, st, noise_pred, t, rescaled)
    IN  [latents |-> stepped.prev_sample,
         sched |-> stepped.state,
         calls |-> <<Call("mul_sigma", lat, InitNoiseSigma(id), <<>>, rescaled),
                     Call("scale_model_input", cat, t, <<>>, latent_model_input),
                     Call("unet", latent_model_input, t, ehs, unet_out),
                     Call("step", noise_pred, t, rescaled, stepped.prev_sample)>>]

\* schedulers.py, forward: the body of `for t in self.scheduler.timesteps`
ForwardBody(id, st, lat, t, ehs) ==
    LET cat == CatTwice(lat)
        latent_model_input == ScaleModelInput(id, cat, t)
        unet_out == UNetForward(latent_model_input, t, ehs)
        halves == Chunk2(unet_out)
        noise_pred_uncond == halves[1]
        noise_pred_text == halves[2]
        noise_pred == GuidedNoise(GuidanceScaleNum, GuidanceScaleDen,
                                  noise_pred_uncond, noise_pred_text)
        stepped == SchedulerStep(id, st, noise_pred, t, lat)
    IN  [latents |-> stepped.prev_sample,
         sched |-> stepped.state,
         calls |-> <<Call("scale_model_input", cat, t, <<>>, latent_model_input),
                     Call("unet", latent_model_input, t, ehs, unet_out),
                     Call("step", noise_pred, t, lat, stepped.prev_sample)>>]

\* an eager loop body that omits the per-step input rescaling
TorchForwardBodyUnscaled(id, st, lat, t, ehs) ==
    LET latent_model_input == CatTwice(lat)
        unet_out == UNetForward(latent_model_input, t, ehs)
        halves == Chunk2(unet_out)
        noise_pred == GuidedNoise(GuidanceScaleNum, GuidanceScaleDen,
                                  halves[1], halves[2])
        stepped == SchedulerStep(id, st, noise_pred, t, lat)
    IN  [latents |-> stepped.prev_sample,
         sched |-> stepped.state,
         calls |-> <<Call("unet", latent_model_input, t, ehs, unet_out),
                     Call("step", noise_pred, t, lat, stepped.prev_sample)>>]

\* schedulers_runner.py, forward of the eager reference: the loop body
TorchForwardBody(id, st, lat, t, ehs) ==
    LET cat == CatTwice(lat)
        latent_model_input == ScaleModelInput(id, cat, t)
        unet_out == UNetForward(latent_model_input, t, ehs)
        halves == Chunk2(unet_out)
        noise_pred_uncond == halves[1]
        noise_pred_text == halves[2]
        noise_pred == GuidedNoise(GuidanceScaleNum, GuidanceScaleDen,
                                  noise_pred_uncond, noise_pred_text)
        stepped == SchedulerStep(id, st, noise_pred, t, lat)
    IN  [latents |-> stepped.prev_sample,
         sched |-> stepped.state,
         calls |-> <<Call("scale_model_input", cat, t, <<>>, latent_model_input),
                     Call("unet", latent_model_input, t, ehs, unet_out),
                     Call("step", noise_pred, t, lat, stepped.prev_sample)>>]

\* a loop that stops one timestep short
LoopContinuesShort(m) == m.pos + 1 < Len(m.timesteps)

\* `for t in self.scheduler.timesteps`: another timestep is left
LoopContinues(m) == m.pos < Len(m.timesteps)

\* latent inputs: one integer per batch row
Samples == {[i \in 1..b |-> i] : b \in 1..MaxBatch}

\* conditioning inputs for batch b: b unconditional rows, then b conditional
Conditionings(b) ==
    {[i \in 1..(2 * b) |-> IF i <= b THEN 0 ELSE c] : c \in 1..2}

InitLoop ==
    /\ scheduler_id \in SchedulerIds
    /\ num_inference_steps \in 0..MaxSteps
    /\ sample \in Samples
    /\ encoder_hidden_states \in Conditionings(Len(sample))
    /\ mod = [m \in Modules |-> NewModule]

\* exporter __main__: Scheduler(hf_model_name, num_inference_steps, scheduler)
ExporterConstruct ==
    /\ mod["exporter"].pc \in {"absent", "ready", "done"}
    /\ mod["exporter"].inits < MaxInits
    /\ mod' = [mod EXCEPT !["exporter"] =
                  SchedulerInit(@, scheduler_id, num_inference_steps)]
    /\ UNCHANGED <<scheduler_id, num_inference_steps, sample,
                   encoder_hidden_states, cliVars>>

\* forward of the exporter's module, entered on a constructed module (again
\* after an earlier pass returned: the module keeps its scheduler)
ExporterForwardEnter ==
    /\ mod["exporter"].pc \in {"ready", "done"}
    /\ mod["exporter"].passes < MaxPasses
    /\ LET r == ForwardEnter(scheduler_id, sample)
       IN  mod' = [mod EXCEPT !["exporter"] =
                     [@ EXCEPT !.pc = "loop",
                               !.latents = r,
                               !.pos = 0,
                               !.passes = @ + 1,
                               !.calls = <<Call("mul_sigma", sample,
                                    InitNoiseSigma(scheduler_id), <<>>, r)>>]]
    /\ UNCHANGED <<scheduler_id, num_inference_steps, sample,
                   encoder_hidden_states, cliVars>>

\* one iteration of the exporter's loop
ExporterForwardStep ==
    /\ mod["exporter"].pc = "loop"
    /\ LoopContinues(mod["exporter"])
    /\ LET m == mod["exporter"]
           b == ForwardBody(scheduler_id, m.sched, m.latents,
                            m.timesteps[m.pos + 1], encoder_hidden_states)
       IN  mod' = [mod EXCEPT !["exporter"] =
                     [@ EXCEPT !.latents = b.latents,
                               !.sched = b.sched,
                               !.pos = @ + 1,
                               !.calls = @ \o b.calls]]
    /\ UNCHANGED <<scheduler_id, num_inference_steps, sample,
                   encoder_hidden_states, cliVars>>

\* `return latents` of the exporter's loop
ExporterForwardReturn ==
    /\ mod["exporter"].pc = "loop"
    /\ ~LoopContinues(mod["exporter"])
    /\ mod' = [mod EXCEPT !["exporter"] =
                 [@ EXCEPT !.pc = "done",
                           !.outs = Append(@, [latents |-> mod["exporter"].latents,
                                               pass |-> mod["exporter"].passes])]]
    /\ UNCHANGED <<scheduler_id, num_inference_steps, sample,
                   encoder_hidden_states, cliVars>>

\* run_torch_scheduler: a new Scheduler module around the given scheduler
RunnerConstruct ==
    /\ mod["runner"].pc \in {"absent", "done"}
    /\ mod["runner"].inits < MaxInits
    /\ mod' = [mod EXCEPT !["runner"] =
                  SchedulerInit(@, scheduler_id, num_inference_steps)]
    /\ UNCHANGED <<scheduler_id, num_inference_steps, sample,
                   encoder_hidden_states, cliVars>>

\* run_torch_scheduler: scheduler_module.forward(sample, encoder_hidden_states)
RunnerForwardEnter ==
    /\ mod["runner"].pc = "ready"
    /\ LET r == TorchForwardEnter(scheduler_id, sample)
       IN  mod' = [mod EXCEPT !["runner"] =
                     [@ EXCEPT !.pc = "loop",
                               !.latents = r,
                               !.pos = 0,
                               !.passes = @ + 1,
                               !.calls = <<Call("mul_sigma", sample,
                                    InitNoiseSigma(scheduler_id), <<>>, r)>>]]
    /\ UNCHANGED <<scheduler_id, num_inference_steps, sample,
                   encoder_hidden_states, cliVars>>

\* one iteration of the eager reference loop
RunnerForwardStep ==
    /\ mod["runner"].pc = "loop"
    /\ LoopContinues(mod["runner"])
    /\ LET m == mod["runner"]
           b == TorchForwardBody(scheduler_id, m.sched, m.latents,
                                 m.timesteps[m.pos + 1], encoder_hidden_states)
       IN  mod' = [mod EXCEPT !["runner"] =
                     [@ EXCEPT !.latents = b.latents,
                               !.sched = b.sched,
                               !.pos = @ + 1,
                               !.calls = @ \o b.calls]]
    /\ UNCHANGED <<scheduler_id, num_inference_steps, sample,
                   encoder_hidden_states, cliVars>>

\* `return latents` of the eager reference loop
RunnerForwardReturn ==
    /\ mod["runner"].pc = "loop"
    /\ ~LoopContinues(mod["runner"])
    /\ mod' = [mod EXCEPT !["runner"] =
                 [@ EXCEPT !.pc = "done",
                           !.outs = Append(@, [latents |-> mod["runner"].latents,
                                               pass |-> mod["runner"].passes])]]
    /\ UNCHANGED <<scheduler_id, num_inference_steps, sample,
                   encoder_hidden_states, cliVars>>

NextLoop ==
    \/ ExporterConstruct
    \/ ExporterForwardEnter
    \/ ExporterForwardStep
    \/ ExporterForwardReturn
    \/ RunnerConstruct
    \/ RunnerForwardEnter
    \/ RunnerForwardStep
    \/ RunnerForwardReturn

---------------------------------------------------------------------------
(* The command lines *)

\* values of --hf_model_name explored: the two the runner names, and another
ModelNames == {"CompVis/stable-diffusion-v1-4",
               "stabilityai/stable-diffusion-2-1-base",
               "runwayml/stable-diffusion-v1-5"}

\* values of --scheduler_id explored: the registry's keys and one that is
\* not a key
SchedulerArgs == SchedulerIds \cup {"NoSuchScheduler"}

\* values of --compile_to explored; "unset" is the flag left out (None)
CompileTargets == {"unset", "torch", "linalg", "vmfb"}

\* values of --height and --width explored
ImageSizes == {512, 768}

\* the value of a name no statement has bound
Unbound == <<>>

\* a process whose command line did not run
CliIdle == [pc |-> "idle"]

\* a dictionary lookup that falls back to a default instead of raising
LookupNeverFails(keys, key) == FALSE

\* schedulers[args.scheduler_id] raises KeyError
LookupFails(keys, key) == key \notin keys

\* export_scheduler: the conditioning shape the program is traced for
ExportEncoderHiddenStatesSizes(hf_model_name) ==
    IF hf_model_name = "stabilityai/stable-diffusion-2-1-base"
    THEN <<2, 77, 1024>>
    ELSE <<2, 77, 768>>

\* export_scheduler: sample = (batch_size, 4, height // 8, width // 8)
ExportSampleSizes(batch_size, height, width) ==
    <<batch_size, 4, height \div 8, width \div 8>>

\* runner __main__: the shape of the random sample
RunnerSampleSizes(batch_size, height, width) ==
    <<batch_size, 4, height \div 8, width \div 8>>

\* runner __main__: the shape of the random conditioning tensor; the name
\* stays unbound when neither branch is taken
RunnerEncoderHiddenStatesSizes(hf_model_name) ==
    IF hf_model_name = "CompVis/stable-diffusion-v1-4"
    THEN <<2, 77, 768>>
    ELSE IF hf_model_name = "stabilityai/stable-diffusion-2-1-base"
         THEN <<2, 77, 1024>>
         ELSE Unbound

\* export_scheduler's last statement: the value it returns to __main__ for
\* the given stage, after a successful trace (and compile)
ExportReturnValue(compile_to, module_str) ==
    IF compile_to # "vmfb" THEN module_str ELSE "None"

\* utils.compile_to_vmfb: compiles the program text and writes the binary;
\* it returns nothing, or raises when the compiler fails
CompileToVmfb(files, ok) == IF ok THEN files \cup {"vmfb"} ELSE files

\* the comparison tolerance 9e-3, in thousandths
ErrThresholdMilli == 9

\* an assertion that also accepts an error equal to the tolerance
AssertPassesInclusive(err) == err <= ErrThresholdMilli

\* assert err < 9e-3
AssertPasses(err) == err < ErrThresholdMilli

\* the exporter at the first statement of its __main__
ExporterStart ==
    [pc |-> "lookup",        \* lookup, construct, trace, stage, write, done, failed
     error |-> "none",       \* the exception that ended the process
     unet_loaded |-> FALSE,  \* UNet2DConditionModel.from_pretrained ran
     traced |-> FALSE,       \* the loop was traced into a program
     sample_sizes |-> <<>>,  \* shape the sample input was traced for
     ehs_sizes |-> <<>>,     \* shape the conditioning input was traced for
     mod_str |-> "unset",    \* unset, mlir (the program text), None
     files |-> {}]           \* files holding an artifact: mlir, vmfb

\* the runner at the first statement of its __main__
RunnerStart ==
    [pc |-> "inputs",        \* inputs, run, lookup, torch, assert, unlink, done, failed
     error |-> "none",
     sample_sizes |-> <<>>,
     ehs_sizes |-> Unbound,
     executed |-> 0,         \* times the compiled artifact was executed
     unet_loaded |-> FALSE,
     torch_runs |-> 0,       \* times the eager reference loop ran
     err |-> -1]             \* largest error in thousandths, -1 before it is computed

InitCLI ==
    /\ args \in [hf_model_name : ModelNames,
                 scheduler_id : SchedulerArgs,
                 batch_size : 1..MaxBatch,
                 height : ImageSizes,
                 width : ImageSizes,
                 compile_to : CompileTargets,
                 compare_vs_torch : BOOLEAN]
    /\ ex = ExporterStart
    /\ rn = CliIdle
    /\ scheduler_id = ""
    /\ num_inference_steps = 0
    /\ sample = <<>>
    /\ encoder_hidden_states = <<>>
    /\ mod = [m \in Modules |-> NewModule]

\* exporter __main__: schedulers = utils.get_schedulers(...);
\* scheduler = schedulers[args.scheduler_id]
ExporterLookup ==
    /\ ex.pc = "lookup"
    /\ ex' = IF LookupFails(SchedulerIds, args.scheduler_id)
             THEN [ex EXCEPT !.pc = "failed", !.error = "KeyError"]
             ELSE [ex EXCEPT !.pc = "construct"]
    /\ UNCHANGED <<args, rn, loopVars>>

\* exporter __main__: Scheduler(...), which loads the UNet
ExporterLoadModule ==
    /\ ex.pc = "construct"
    /\ ex' = [ex EXCEPT !.pc = "trace", !.unet_loaded = TRUE]
    /\ UNCHANGED <<args, rn, loopVars>>

\* export_scheduler up to str(get_mlir_module(inst)): the input shapes are
\* fixed and the loop is traced; the trace succeeds or raises
ExporterTrace ==
    /\ ex.pc = "trace"
    /\ \E ok \in BOOLEAN :
          ex' = IF ok
                THEN [ex EXCEPT
                        !.pc = "stage",
                        !.traced = TRUE,
                        !.sample_sizes = ExportSampleSizes(args.batch_size,
                                             args.height, args.width),
                        !.ehs_sizes =
                            ExportEncoderHiddenStatesSizes(args.hf_model_name)]
                ELSE [ex EXCEPT !.pc = "failed", !.error = "TraceError"]
    /\ UNCHANGED <<args, rn, loopVars>>

\* export_scheduler from `if upload_ir` (False from the command line) to its
\* return: the program text is returned, or compiled with nothing returned
ExporterStage ==
    /\ ex.pc = "stage"
    /\ \E ok \in BOOLEAN :
          ex' = IF args.compile_to # "vmfb"
                THEN [ex EXCEPT !.pc = "write",
                        !.mod_str = ExportReturnValue(args.compile_to, "mlir")]
                ELSE IF ok
                THEN [ex EXCEPT !.pc = "write",
                        !.files = CompileToVmfb(@, TRUE),
                        !.mod_str = ExportReturnValue(args.compile_to, "mlir")]
                ELSE [ex EXCEPT !.pc = "failed", !.error = "CompileError"]
    /\ UNCHANGED <<args, rn, loopVars>>

\* exporter __main__: open(safe_name + ".mlir", "w+"); f.write(mod_str);
\* writing None raises TypeError and leaves the file empty
ExporterWrite ==
    /\ ex.pc = "write"
    /\ ex' = IF ex.mod_str = "None"
             THEN [ex EXCEPT !.pc = "failed", !.error = "TypeError"]
             ELSE [ex EXCEPT !.pc = "done", !.files = @ \cup {ex.mod_str}]
    /\ UNCHANGED <<args, rn, loopVars>>

\* the runner's command line is started once the exporter's has ended
RunnerLaunch ==
    /\ ex.pc \in {"done", "failed"}
    /\ rn.pc = "idle"
    /\ rn' = RunnerStart
    /\ UNCHANGED <<args, ex, loopVars>>

\* runner __main__: the random sample and conditioning tensors
RunnerBuildInputs ==
    /\ rn.pc = "inputs"
    /\ rn' = [rn EXCEPT
                !.pc = "run",
                !.sample_sizes = RunnerSampleSizes(args.batch_size,
                                     args.height, args.width),
                !.ehs_sizes = RunnerEncoderHiddenStatesSizes(args.hf_model_name)]
    /\ UNCHANGED <<args, ex, loopVars>>

\* runner __main__: turbine_output = run_scheduler(...) and its print; the
\* unbound conditioning name raises NameError when the call's arguments are
\* evaluated; loading and executing the artifact succeeds or raises
RunnerRunScheduler ==
    /\ rn.pc = "run"
    /\ \E ok \in BOOLEAN :
          rn' = IF rn.ehs_sizes = Unbound
                THEN [rn EXCEPT !.pc = "failed", !.error = "NameError"]
                ELSE IF ok
                THEN [rn EXCEPT !.executed = @ + 1,
                        !.pc = IF args.compare_vs_torch THEN "lookup" ELSE "unlink"]
                ELSE [rn EXCEPT !.pc = "failed", !.error = "RuntimeError"]
    /\ UNCHANGED <<args, ex, loopVars>>

\* runner __main__, under `if args.compare_vs_torch`: the registry lookup
RunnerLookup ==
    /\ rn.pc = "lookup"
    /\ rn' = IF LookupFails(SchedulerIds, args.scheduler_id)
             THEN [rn EXCEPT !.pc = "failed", !.error = "KeyError"]
             ELSE [rn EXCEPT !.pc = "torch"]
    /\ UNCHANGED <<args, ex, loopVars>>

\* runner __main__: run_torch_scheduler (loads the UNet, runs the eager
\* loop) and err = utils.largest_error(torch_output, turbine_output)
RunnerTorch ==
    /\ rn.pc = "torch"
    /\ \E e \in 0..MaxErrMilli :
          rn' = [rn EXCEPT !.pc = "assert",
                           !.unet_loaded = TRUE,
                           !.torch_runs = @ + 1,
                           !.err = e]
    /\ UNCHANGED <<args, ex, loopVars>>

\* runner __main__: assert err < 9e-3
RunnerAssert ==
    /\ rn.pc = "assert"
    /\ rn' = IF AssertPasses(rn.err)
             THEN [rn EXCEPT !.pc = "unlink"]
             ELSE [rn EXCEPT !.pc = "failed", !.error = "AssertionError"]
    /\ UNCHANGED <<args, ex, loopVars>>

\* runner __main__: turbine_output = None, the last statement
RunnerUnlink ==
    /\ rn.pc = "unlink"
    /\ rn' = [rn EXCEPT !.pc = "done"]
    /\ UNCHANGED <<args, ex, loopVars>>

NextCLI ==
    \/ ExporterLookup
    \/ ExporterLoadModule
    \/ ExporterTrace
    \/ ExporterStage
    \/ ExporterWrite
    \/ RunnerLaunch
    \/ RunnerBuildInputs
    \/ RunnerRunScheduler
    \/ RunnerLookup
    \/ RunnerTorch
    \/ RunnerAssert
    \/ RunnerUnlink

\* placeholder arguments of the loop specification
NoArgs == [hf_model_name |-> "", scheduler_id |-> "", batch_size |-> 0,
           height |-> 0, width |-> 0, compile_to |-> "",
           compare_vs_torch |-> FALSE]

\* the loop alone: both Scheduler modules, the command lines left out
Init ==
    /\ InitLoop
    /\ args = NoArgs
    /\ ex = CliIdle
    /\ rn = CliIdle

Next == NextLoop

Spec == Init /\ [][Next]_vars

\* the command lines alone: the exporter, then the runner
SpecCLI == InitCLI /\ [][NextCLI]_vars

---------------------------------------------------------------------------
(* Properties of the sampling loop, checked under Spec *)

IsStep(c) == c.op = "step"
IsUNet(c) == c.op = "unet"
IsMulSigma(c) == c.op = "mul_sigma"
IsScale(c) == c.op = "scale_model_input"

\* the timesteps of a call log's scheduler.step calls, in call order
StepTimes(calls) ==
    LET steps == SelectSeq(calls, IsStep)
    IN  [i \in 1..Len(steps) |-> steps[i].t]

Started(m) == mod[m].pc \in {"loop", "done"}

\* C1 as stated: a finished forward pass has made exactly N (the configured
\* step count) UNet calls and N scheduler.step calls, whatever the scheduler.
C1_ExactlyNSteps ==
    \A m \in Modules :
        mod[m].pc = "done" =>
            /\ Len(SelectSeq(mod[m].calls, IsStep)) = num_inference_steps
            /\ Len(SelectSeq(mod[m].calls, IsUNet)) = num_inference_steps

\* C1 amended: a forward pass makes one UNet call and one scheduler.step call
\* per element of scheduler.timesteps, in the sequence's order, each element
\* once; it returns only after the last element, and then it can return;
\* the sequence has N elements, except N + 1 for PNDM with N >= 2.
C1_ConsumesTimestepsOnce ==
    \A m \in Modules :
        /\ Started(m) =>
            /\ Len(SelectSeq(mod[m].calls, IsStep)) = mod[m].pos
            /\ Len(SelectSeq(mod[m].calls, IsUNet)) = mod[m].pos
            /\ mod[m].pos <= Len(mod[m].timesteps)
            /\ StepTimes(mod[m].calls) = SubSeq(mod[m].timesteps, 1, mod[m].pos)
            /\ Len(mod[m].timesteps) =
                 IF scheduler_id = "PNDM" /\ num_inference_steps >= 2
                 THEN num_inference_steps + 1
                 ELSE num_inference_steps
        /\ mod[m].pc = "done" =>
            /\ mod[m].pos = Len(mod[m].timesteps)
            /\ mod[m].outs[Len(mod[m].outs)].latents = mod[m].latents
        /\ (mod[m].pc = "loop" /\ mod[m].pos = Len(mod[m].timesteps)) =>
             IF m = "exporter"
             THEN ENABLED ExporterForwardReturn
             ELSE ENABLED RunnerForwardReturn

\* C1 witness: a pass over PNDM's three timesteps for N = 2 has finished
C1_Witness ==
    /\ scheduler_id = "PNDM"
    /\ num_inference_steps = 2
    /\ mod["exporter"].pc = "done"
    /\ mod["runner"].pc = "done"
    /\ StepTimes(mod["exporter"].calls) = <<2, 1, 1>>

\* the latents a call log's k-th loop iteration starts from: the scaled
\* input for the first, the previous scheduler.step's result after that
Carried(calls, k) ==
    LET steps == SelectSeq(calls, IsStep)
    IN  IF k = 1 THEN calls[1].r ELSE steps[k - 1].r

\* C6: the latents are multiplied by init_noise_sigma exactly once, before
\* the first step; every scheduler.step receives the carried latents (the
\* scaled input, then the previous step's result), never the output of
\* scale_model_input, which is applied only to the duplicated carried
\* latents; with no timesteps the scaled latents are returned.
C6_SigmaOnceBeforeLoop ==
    \A m \in Modules :
        LET calls == mod[m].calls
            steps == SelectSeq(calls, IsStep)
            scales == SelectSeq(calls, IsScale)
            sigma == InitNoiseSigma(scheduler_id)
        IN  /\ Started(m) =>
                /\ Len(SelectSeq(calls, IsMulSigma)) = 1
                /\ calls[1].op = "mul_sigma"
                /\ calls[1].x = sample
                /\ calls[1].t = sigma
                /\ calls[1].r = [i \in 1..Len(sample) |-> sample[i] * sigma]
                /\ Len(scales) = Len(steps)
                /\ \A k \in 1..Len(steps) :
                      /\ steps[k].c = Carried(calls, k)
                      /\ scales[k].x = Carried(calls, k) \o Carried(calls, k)
                /\ mod[m].latents = Carried(calls, Len(steps) + 1)
            /\ (mod[m].pc = "done" /\ mod[m].timesteps = <<>>) =>
                mod[m].outs[Len(mod[m].outs)].latents =
                    [i \in 1..Len(sample) |-> sample[i] * sigma]

\* C6 witness: two steps were taken under a scheduler whose sigma is not 1 and whose
\* scale_model_input changes its input
C6_Witness ==
    /\ scheduler_id = "EulerDiscrete"
    /\ num_inference_steps = 2
    /\ mod["exporter"].pc = "done"
    /\ mod["exporter"].passes = 2
    /\ mod["runner"].pc = "done"
    /\ \E k \in 1..Len(mod["runner"].calls) :
          /\ mod["runner"].calls[k].op = "scale_model_input"
          /\ mod["runner"].calls[k].r # mod["runner"].calls[k].x

\* C7: the noise given to every scheduler.step is
\* u + 7.5 * (c - u) with u the first and c the second half of the rows the
\* UNet call just before it returned (stated doubled, to stay in integers);
\* and with guidance scale 0 the combination of those halves is u itself.
C7_GuidedNoise ==
    \A m \in Modules :
        \A j \in 1..Len(mod[m].calls) :
            mod[m].calls[j].op = "step" =>
                LET b == Len(mod[m].calls[j].c)
                    un == mod[m].calls[j - 1]
                    u == [i \in 1..b |-> un.r[i]]
                    c == [i \in 1..b |-> un.r[b + i]]
                    noise == mod[m].calls[j].x
                IN  /\ un.op = "unet"
                    /\ Len(un.r) = 2 * b
                    /\ Len(noise) = b
                    /\ \A i \in 1..b :
                          2 * noise[i] = 2 * u[i] + 15 * (c[i] - u[i])
                    /\ GuidedNoise(0, 1, u, c) = u

\* C7 witness: a step was taken on a batch of two whose halves of the UNet output differ
C7_Witness ==
    \E m \in Modules :
        \E j \in 2..Len(mod[m].calls) :
            /\ mod[m].calls[j].op = "step"
            /\ Len(mod[m].calls[j].c) = 2
            /\ mod[m].calls[j - 1].r[1] # mod[m].calls[j - 1].r[3]
            /\ mod[m].calls[j - 1].r[2] # mod[m].calls[j - 1].r[4]

C9_SameStateMachine ==
    LET e == mod["exporter"]
        r == mod["runner"]
    IN  (Started("exporter") /\ Started("runner") /\ e.passes = r.passes) =>
            /\ e.timesteps = r.timesteps
            /\ e.pos = r.pos => (e.calls = r.calls /\ e.latents = r.latents)
            /\ (e.pc = "done" /\ r.pc = "done") =>
                  /\ e.calls = r.calls
                  /\ e.outs[Len(e.outs)].latents = r.outs[Len(r.outs)].latents

\* C9 witness: both loops finished a two-step pass under the scheduler that rescales
C9_Witness ==
    /\ scheduler_id = "EulerDiscrete"
    /\ num_inference_steps = 2
    /\ Len(sample) = 2
    /\ mod["exporter"].pc = "done"
    /\ mod["runner"].pc = "done"
    /\ mod["exporter"].passes = 1
    /\ Len(mod["exporter"].calls) = 7
    /\ mod["exporter"].calls = mod["runner"].calls

---------------------------------------------------------------------------
(* Properties of the command lines, checked under SpecCLI *)

UnknownScheduler == args.scheduler_id \notin SchedulerIds
ExporterEnded == ex.pc \in {"done", "failed"}
RunnerEnded == rn.pc \in {"done", "failed"}
RunnerBuilt == rn.pc \notin {"idle", "inputs"}

\* C2 as stated: with a scheduler identifier that is not in the registry,
\* neither command line loads the UNet, traces or executes the compiled
\* artifact, the exporter ends with the lookup error and the runner never
\* runs to its end.
C2_UnknownSchedulerFailsFirst ==
    UnknownScheduler =>
        /\ ~ex.unet_loaded /\ ~ex.traced
        /\ ExporterEnded => ex.error = "KeyError"
        /\ rn.pc # "idle" => (rn.executed = 0 /\ ~rn.unet_loaded)
        /\ rn.pc # "done"

\* C2 amended: the exporter fails an unknown identifier with the lookup
\* error before it loads the UNet, traces, compiles or writes anything.  The
\* runner looks the identifier up only when comparison is requested, after
\* the compiled artifact was executed once and before the eager loop's UNet
\* is loaded; without comparison it ends without a lookup error.  The lookup
\* error is raised for no identifier of the registry.
C2_UnknownSchedulerLookup ==
    /\ UnknownScheduler =>
          /\ ~ex.unet_loaded /\ ~ex.traced /\ ex.files = {}
          /\ ExporterEnded => ex.error = "KeyError"
          /\ (rn.pc # "idle" /\ RunnerEnded /\ args.compare_vs_torch) =>
                rn.error \in {"KeyError", "NameError", "RuntimeError"}
          /\ rn.pc = "done" => ~args.compare_vs_torch
    /\ (rn.pc # "idle" /\ rn.error = "KeyError") =>
          /\ UnknownScheduler
          /\ args.compare_vs_torch
          /\ rn.executed = 1
          /\ ~rn.unet_loaded
          /\ rn.torch_runs = 0
    /\ ex.error = "KeyError" => UnknownScheduler

\* C2 witness: the runner raised the lookup error after it executed the artifact, the
\* exporter having raised it at once
C2_Witness ==
    /\ UnknownScheduler
    /\ ex.error = "KeyError"
    /\ rn.pc = "failed"
    /\ rn.error = "KeyError"
    /\ rn.executed = 1

\* C3: with comparison requested and the error computed, the runner ends
\* with the assertion failure exactly when the error is at least 9e-3 and
\* runs to its end exactly when it is below; after the failure nothing runs
\* again and the artifact and the eager loop have each run once.
C3_AssertionIffErrorAtLeastTolerance ==
    /\ (rn.pc # "idle" /\ rn.error = "AssertionError") =>
          /\ args.compare_vs_torch
          /\ rn.err >= 9
          /\ rn.pc = "failed"
    /\ (rn.pc \in {"unlink", "done"} /\ args.compare_vs_torch) =>
          /\ rn.err >= 0
          /\ rn.err < 9
          /\ rn.error = "none"
    /\ (rn.pc = "failed" /\ rn.err >= 0) =>
          /\ rn.error = "AssertionError"
          /\ rn.executed = 1
          /\ rn.torch_runs = 1
          /\ ~ENABLED NextCLI

\* C3 witness: the runner aborted on an error equal to the tolerance
C3_Witness ==
    /\ rn.pc = "failed"
    /\ rn.error = "AssertionError"
    /\ rn.err = 9
    /\ args.compare_vs_torch

C5_ConditioningBatchIsTwiceBatch ==
    /\ ex.traced =>
          /\ ex.ehs_sizes[1] = 2 * args.batch_size
          /\ ex.ehs_sizes[2] = 77
          /\ ex.sample_sizes[1] = args.batch_size
    /\ (RunnerBuilt /\ rn.ehs_sizes # Unbound) =>
          /\ rn.ehs_sizes[1] = 2 * args.batch_size
          /\ rn.ehs_sizes[2] = 77
          /\ rn.sample_sizes[1] = args.batch_size

\* C10: for every model identifier the runner builds a conditioning tensor
\* of the embedding width the exporter uses (1024 for
\* stabilityai/stable-diffusion-2-1-base, 768 otherwise), and it executes
\* the artifact only with the tensor defined.
C10_RunnerEmbeddingWidthMatchesExporter ==
    /\ RunnerBuilt =>
          /\ rn.ehs_sizes # Unbound
          /\ rn.ehs_sizes[3] =
                IF args.hf_model_name = "stabilityai/stable-diffusion-2-1-base"
                THEN 1024 ELSE 768
    /\ (rn.pc # "idle" /\ rn.executed > 0) => rn.ehs_sizes # Unbound

=============================================================================
